---- MODULE Spec2Model ----
(***************************************************************************)
(* Model of the rulego network resource pool (engine/net_pool.go), the     *)
(* node context it pools, and the lazy connection wrapper                  *)
(* (components/base NetResourceNode).                                      *)
(***************************************************************************)
EXTENDS Integers, Sequences, FiniteSets, TLC

\* ------------------------------------------------------------------ bounds
NumThreads == 2
MaxInst == 3
MaxPools == 2
MaxCalls == 3
MaxWrapCalls == 5

Threads == 1..NumThreads
InstIds == 1..MaxInst
PoolIds == 1..MaxPools

\* --------------------------------------------------------------- constants
NoPool == 0
NoCtx == 0
Nil == "nil"

\* Component types.  mqttClient implements types.NetResource, jsFilter does
\* not (net_pool_test.go:81-92); notFound is not in the component registry.
NodeTypes == {"mqttClient", "jsFilter"}
NetResourceTypes == {"mqttClient"}
DslTypes == NodeTypes \cup {"notFound"}

\* Strings that the code slices are sequences of characters.
NoId == << >>
Ids == {<<"a">>, <<"b">>}
Servers == {"p1", "p2", "bad"}

NoDef == [id |-> NoId, type |-> "", server |-> ""]
Malformed == [ok |-> FALSE, id |-> NoId, type |-> "", server |-> ""]
Dsls == {Malformed} \cup
        [ok : {TRUE}, id : {<<"a">>}, type : DslTypes, server : Servers]
Defs == [id : Ids, type : NodeTypes, server : {"p1"}]

\* config.Parser.DecodeRuleNode: a definition or a decode error.
DecodeRuleNode(dsl) ==
    IF dsl.ok
    THEN [err |-> Nil,
          def |-> [id |-> dsl.id, type |-> dsl.type, server |-> dsl.server]]
    ELSE [err |-> "DecodeError", def |-> NoDef]

\* Building a node context for a definition: the registry lookup, then the
\* component's own Init, which rejects a malformed configuration.
InitNodeCtxError(def) ==
    IF def.type \notin NodeTypes THEN "ComponentNotFound"
    ELSE IF def.server = "bad" THEN "ComponentInitError"
    ELSE Nil

\* The wrappers (NetResourceNode) of the connection-bearing components.
Consumers == {"c1", "c2"}
NodeConfigurationPrefixNetResource == <<"r", "e", "f", ":", "/", "/">>
WrapperServers == {NodeConfigurationPrefixNetResource \o <<"a">>,
                   NodeConfigurationPrefixNetResource \o <<"b">>,
                   NodeConfigurationPrefixNetResource, <<"p", "1">>}
\* The private connection a wrapper's own dial function yields.
LocalConn(c) == IF c = "c1" THEN -1 ELSE -2

\* --------------------------------------------------------------- variables
\* The variable scopes of the resolver: names, their values, and a scope
\* as a map from every name to its value or to Unset.
VarNames == {"name", "ip"}
VarValues == {"lala", "127.0.0.1"}
Unset == "unset"
EmptyScope == [n \in VarNames |-> Unset]

\* A string of a configuration is a sequence of literal pieces and of
\* placeholders ${scope.name}; a value that is not a string is a number.
Lit(text) == [kind |-> "lit", scope |-> "", name |-> text]
Var(scope, n) == [kind |-> "var", scope |-> scope, name |-> n]
Str(segs) == [str |-> TRUE, segs |-> segs, val |-> 0]
Num(n) == [str |-> FALSE, segs |-> << >>, val |-> n]

\* The pipeline context handed to the resolver: nil, or the vars and
\* decryptSecrets of the rule chain's configuration.
NilChainCtx == [nil |-> TRUE, vars |-> EmptyScope, decryptSecrets |-> EmptyScope]
ChainCtxs ==
    {NilChainCtx,
     [nil |-> FALSE, vars |-> EmptyScope, decryptSecrets |-> EmptyScope],
     [nil |-> FALSE, vars |-> [EmptyScope EXCEPT !["ip"] = "127.0.0.1"],
      decryptSecrets |-> [EmptyScope EXCEPT !["name"] = "lala"]]}

\* The raw configurations handed to the resolver.
NoConfiguration == [k \in {} |-> Num(0)]
Configurations ==
    {("name" :> Str(<<Var("global", "name")>>)),
     ("name" :> Str(<<Var("global", "name")>>)) @@ ("age" :> Num(18)),
     ("name" :> Str(<<Var("global", "name")>>))
        @@ ("ip" :> Str(<<Var("vars", "ip")>>)),
     ("ip" :> Str(<<Lit("tcp://"), Var("vars", "ip"), Lit(":1883")>>)),
     ("name" :> Str(<<Var("decryptSecrets", "name")>>)) @@ ("age" :> Num(18)),
     ("name" :> Str(<<Var("global", "name"), Var("global", "ip")>>))
        @@ ("ip" :> Str(<<Var("vars", "name")>>)),
     ("name" :> Str(<<Lit("plain")>>)) @@ ("age" :> Num(0))}

NoResolved == [raw |-> NoConfiguration, chainCtx |-> NilChainCtx,
               result |-> NoConfiguration, err |-> "",
               prevRaw |-> NoConfiguration, prevResult |-> NoConfiguration]

VARIABLES
    nodeNetPoolMap,   \* NetPool.nodeNetPoolMap : node type -> sub-pool
    entries,          \* NodeNetPool.entries    : sub-pool -> id -> ctx handle
    nextInst,         \* next component instance / ctx handle to allocate
    inst,             \* component instances: type, server, state
    ctx,              \* node ctx handles: SelfDefinition and Node
    wrap,             \* NetResourceNode of each consumer
    pc,               \* position of each thread
    loc,              \* locals of each thread
    ret,              \* what each thread's last call returned
    calls,            \* number of calls started so far
    Properties,       \* config.Properties : the process-wide variables
    resolved          \* the last two processVariables calls

vars == <<nodeNetPoolMap, entries, nextInst, inst, ctx, wrap, pc, loc, ret,
          calls, Properties, resolved>>
pool == <<nodeNetPoolMap, entries>>
nodes == <<nextInst, inst, ctx>>
scopes == <<Properties, resolved>>

NoInst == [type |-> "", server |-> "", state |-> "none"]
\* stored: the handle was put into a pool at some time (history).
NoCtxRec == [def |-> NoDef, node |-> NoCtx, stored |-> FALSE]
\* Established: a dial of the wrapper's own function succeeded at some time
\* (history).  Stopped: the engine of the consumer was stopped (history).
NoWrap == [NodeType |-> "", NetResourceId |-> NoId,
           InitNetResourceFunc |-> FALSE, NetPool |-> FALSE,
           Connecting |-> 0, Established |-> FALSE, Stopped |-> FALSE]
NoLoc == [op |-> "", type |-> "", id |-> NoId, dsl |-> Malformed, def |-> NoDef,
          c |-> "", sp |-> NoPool, h |-> NoCtx, n |-> NoCtx,
          oStart |-> {}, oSeen |-> {}, iStart |-> {}, iSeen |-> {},
          items |-> {}]
\* dial: what the wrapper's own dial function did during the call.
NoRet == [op |-> "", type |-> "", id |-> NoId, dsl |-> Malformed, c |-> "",
          val |-> NoCtx, err |-> Nil, keys |-> {}, items |-> {},
          dial |-> "none"]

Init ==
    /\ nodeNetPoolMap = [ty \in NodeTypes |-> NoPool]
    /\ entries = [p \in PoolIds |-> [id \in Ids |-> NoCtx]]
    /\ nextInst = 1
    /\ inst = [i \in InstIds |-> NoInst]
    /\ ctx = [h \in InstIds |-> NoCtxRec]
    /\ wrap = [c \in Consumers |-> NoWrap]
    /\ pc = [t \in Threads |-> "idle"]
    /\ loc = [t \in Threads |-> NoLoc]
    /\ ret = [t \in Threads |-> NoRet]
    /\ calls = 0
    /\ Properties = EmptyScope
    /\ resolved = NoResolved

\* ----------------------------------------------------------------- helpers
\* sync.Map.Load on a sub-pool's entries (no entry is stored under a key
\* outside Ids).
Load(sp, id) == IF id \in Ids THEN entries[sp][id] ELSE NoCtx

\* Keys a sync.Map.Range can still visit.
PoolKeys == {ty \in NodeTypes : nodeNetPoolMap[ty] # NoPool}
EntryKeys(sp) == {id \in Ids : entries[sp][id] # NoCtx}

\* A thread starts a call.
Begin(t) == pc[t] = "idle"

\* A call ends with result r: the thread is idle again.
Done(t, r) ==
    /\ pc' = [pc EXCEPT ![t] = "idle"]
    /\ ret' = [ret EXCEPT ![t] = r]
    /\ loc' = [loc EXCEPT ![t] = NoLoc]
    /\ UNCHANGED scopes

\* A call that has made steps returns (val, err).
Return(t, val, err) ==
    Done(t, [NoRet EXCEPT !.op = loc[t].op, !.type = loc[t].type,
                          !.id = loc[t].id, !.dsl = loc[t].dsl,
                          !.c = loc[t].c, !.val = val, !.err = err])

\* A call that began goes on at position p with locals l; the previous
\* result is gone.
Start(t, p, l) ==
    /\ pc' = [pc EXCEPT ![t] = p]
    /\ loc' = [loc EXCEPT ![t] = l]
    /\ ret' = [ret EXCEPT ![t] = NoRet]
    /\ UNCHANGED scopes

\* A call goes on at position p with locals l.
Goto(t, p, l) ==
    /\ pc' = [pc EXCEPT ![t] = p]
    /\ loc' = [loc EXCEPT ![t] = l]
    /\ UNCHANGED <<ret, scopes>>

\* NodeNetPool objects nothing refers to any more (garbage).
FreePools ==
    {p \in PoolIds : /\ \A ty \in NodeTypes : nodeNetPoolMap[ty] # p
                     /\ \A t \in Threads : loc[t].sp # p}

\* n.nodeNetPoolMap.LoadOrStore(nodeType, NewNodeNetPool(...)): atomic; the
\* new sub-pool is installed only when the type has none.
LoadOrStore(ty) ==
    IF nodeNetPoolMap[ty] # NoPool
    THEN UNCHANGED <<nodeNetPoolMap, entries>>
    ELSE /\ FreePools # {}
         /\ LET p == CHOOSE q \in FreePools : \A r \in FreePools : q <= r
            IN /\ nodeNetPoolMap' = [nodeNetPoolMap EXCEPT ![ty] = p]
               /\ entries' = [entries EXCEPT ![p] = [id \in Ids |-> NoCtx]]

\* ------------------------------------------------------------ NetPool.New
NetPool_New(t, ty, id, dsl) ==
    /\ Begin(t)
    /\ LoadOrStore(ty)
    /\ Start(t, "New_Load", [NoLoc EXCEPT !.op = "New", !.type = ty, !.id = id,
                                         !.dsl = dsl,
                                         !.sp = nodeNetPoolMap'[ty]])
    /\ UNCHANGED <<nodes, wrap>>

NetPool_NewFromDef(t, def) ==
    /\ Begin(t)
    /\ LoadOrStore(def.type)
    /\ Start(t, "NewFromDef_Load",
            [NoLoc EXCEPT !.op = "NewFromDef", !.type = def.type,
                          !.id = def.id, !.def = def,
                          !.sp = nodeNetPoolMap'[def.type]])
    /\ UNCHANGED <<nodes, wrap>>

\* Mutant of NodeNetPool_New: the entries.Load(id) check is missing.
NodeNetPool_New_NoLoad(t) ==
    /\ pc[t] = "New_Load"
    /\ LET l == loc[t]
           d == DecodeRuleNode(l.dsl)
       IN IF d.err # Nil
          THEN Return(t, NoCtx, d.err)
          ELSE Goto(t, "NewFromDef_Load",
                    [l EXCEPT !.def = IF l.id # NoId
                                      THEN [d.def EXCEPT !.id = l.id]
                                      ELSE d.def])
    /\ UNCHANGED <<pool, nodes, wrap, calls>>

\* Mutant of NodeNetPool_New: the decoded id is not overridden.
NodeNetPool_New_NoOverride(t) ==
    /\ pc[t] = "New_Load"
    /\ LET l == loc[t]
           d == DecodeRuleNode(l.dsl)
       IN IF Load(l.sp, l.id) # NoCtx
          THEN Return(t, Load(l.sp, l.id), Nil)
          ELSE IF d.err # Nil
          THEN Return(t, NoCtx, d.err)
          ELSE Goto(t, "NewFromDef_Load", [l EXCEPT !.def = d.def])
    /\ UNCHANGED <<pool, nodes, wrap, calls>>

\* NodeNetPool.New: entries.Load(id), then decode and override the id.
NodeNetPool_New(t) ==
    /\ pc[t] = "New_Load"
    /\ LET l == loc[t]
           d == DecodeRuleNode(l.dsl)
       IN IF Load(l.sp, l.id) # NoCtx
          THEN Return(t, Load(l.sp, l.id), Nil)
          ELSE IF d.err # Nil
          THEN Return(t, NoCtx, d.err)
          ELSE Goto(t, "NewFromDef_Load",
                    [l EXCEPT !.def = IF l.id # NoId
                                      THEN [d.def EXCEPT !.id = l.id]
                                      ELSE d.def])
    /\ UNCHANGED <<pool, nodes, wrap, calls>>

\* NodeNetPool.NewFromDef: entries.Load(def.Id); on a miss the component is
\* looked up and instantiated and its initialization begins.
NodeNetPool_NewFromDef_Load(t) ==
    /\ pc[t] = "NewFromDef_Load"
    /\ LET l == loc[t]
       IN IF Load(l.sp, l.def.id) # NoCtx
          THEN /\ Return(t, Load(l.sp, l.def.id), Nil)
               /\ UNCHANGED <<nextInst, inst>>
          ELSE IF InitNodeCtxError(l.def) = "ComponentNotFound"
          THEN /\ Return(t, NoCtx, "ComponentNotFound")
               /\ UNCHANGED <<nextInst, inst>>
          ELSE /\ nextInst <= MaxInst
               /\ inst' = [inst EXCEPT ![nextInst] =
                             [type |-> l.def.type, server |-> l.def.server,
                              state |-> "initializing"]]
               /\ nextInst' = nextInst + 1
               /\ Goto(t, "NewFromDef_Init", [l EXCEPT !.h = nextInst])
    /\ UNCHANGED <<pool, ctx, wrap, calls>>

\* Mutant of NodeNetPool_NewFromDef_Store: the entry is stored before the
\* capability check.
NodeNetPool_NewFromDef_StoreFirst(t) ==
    /\ pc[t] = "NewFromDef_Init"
    /\ LET l == loc[t]
       IN IF InitNodeCtxError(l.def) # Nil
          THEN /\ inst' = [inst EXCEPT ![l.h].state = "failed"]
               /\ Return(t, NoCtx, InitNodeCtxError(l.def))
               /\ UNCHANGED <<ctx, entries>>
          ELSE /\ inst' = [inst EXCEPT ![l.h].state = "live"]
               /\ ctx' = [ctx EXCEPT ![l.h] =
                            [def |-> l.def, node |-> l.h, stored |-> TRUE]]
               /\ entries' = [entries EXCEPT ![l.sp][l.def.id] = l.h]
               /\ IF l.def.type \notin NetResourceTypes
                  THEN Return(t, NoCtx, "ErrNotImplemented")
                  ELSE Return(t, l.h, Nil)
    /\ UNCHANGED <<nodeNetPoolMap, nextInst, wrap, calls>>

\* Mutant of NodeNetPool_NewFromDef_Store: the error of
\* InitNetResourceNodeCtx is ignored.
NodeNetPool_NewFromDef_IgnoreErr(t) ==
    /\ pc[t] = "NewFromDef_Init"
    /\ LET l == loc[t]
       IN /\ inst' = [inst EXCEPT ![l.h].state =
                         IF InitNodeCtxError(l.def) # Nil THEN "failed"
                         ELSE "live"]
          /\ IF l.def.type \notin NetResourceTypes
             THEN /\ ctx' = [ctx EXCEPT ![l.h] =
                               [def |-> l.def, node |-> l.h,
                                stored |-> FALSE]]
                  /\ Return(t, NoCtx, "ErrNotImplemented")
                  /\ UNCHANGED entries
             ELSE /\ ctx' = [ctx EXCEPT ![l.h] =
                               [def |-> l.def, node |-> l.h,
                                stored |-> TRUE]]
                  /\ entries' = [entries EXCEPT ![l.sp][l.def.id] = l.h]
                  /\ Return(t, l.h, Nil)
    /\ UNCHANGED <<nodeNetPoolMap, nextInst, wrap, calls>>

\* NodeNetPool.NewFromDef, once InitNetResourceNodeCtx returns: its error,
\* or the capability check and entries.Store.
NodeNetPool_NewFromDef_Store(t) ==
    /\ pc[t] = "NewFromDef_Init"
    /\ LET l == loc[t]
       IN IF InitNodeCtxError(l.def) # Nil
          THEN /\ inst' = [inst EXCEPT ![l.h].state = "failed"]
               /\ Return(t, NoCtx, InitNodeCtxError(l.def))
               /\ UNCHANGED <<ctx, entries>>
          ELSE /\ inst' = [inst EXCEPT ![l.h].state = "live"]
               /\ IF l.def.type \notin NetResourceTypes
                  THEN /\ ctx' = [ctx EXCEPT ![l.h] =
                                    [def |-> l.def, node |-> l.h,
                                     stored |-> FALSE]]
                       /\ Return(t, NoCtx, "ErrNotImplemented")
                       /\ UNCHANGED entries
                  ELSE /\ ctx' = [ctx EXCEPT ![l.h] =
                                    [def |-> l.def, node |-> l.h,
                                     stored |-> TRUE]]
                       /\ entries' = [entries EXCEPT ![l.sp][l.def.id] = l.h]
                       /\ Return(t, l.h, Nil)
    /\ UNCHANGED <<nodeNetPoolMap, nextInst, wrap, calls>>

\* ------------------------------------------------------------ NetPool.Get
NetPool_Get(t, ty, id) ==
    /\ Begin(t)
    /\ IF nodeNetPoolMap[ty] = NoPool
       THEN Done(t, [NoRet EXCEPT !.op = "Get", !.type = ty, !.id = id])
       ELSE Start(t, "Get_Load", [NoLoc EXCEPT !.op = "Get", !.type = ty,
                                              !.id = id,
                                              !.sp = nodeNetPoolMap[ty]])
    /\ UNCHANGED <<pool, nodes, wrap>>

NodeNetPool_Get(t) ==
    /\ pc[t] = "Get_Load"
    /\ Return(t, Load(loc[t].sp, loc[t].id), Nil)
    /\ UNCHANGED <<pool, nodes, wrap, calls>>

\* ------------------------------------------------- NetPool.GetNetResource
NetPool_GetNetResource(t, ty, id) ==
    /\ Begin(t)
    /\ IF nodeNetPoolMap[ty] = NoPool
       THEN Done(t, [NoRet EXCEPT !.op = "GetNetResource", !.type = ty,
                                  !.id = id, !.err = "NotFound"])
       ELSE Start(t, "GetNetResource_Load",
                 [NoLoc EXCEPT !.op = "GetNetResource", !.type = ty,
                               !.id = id, !.sp = nodeNetPoolMap[ty]])
    /\ UNCHANGED <<pool, nodes, wrap>>

\* Mutant of NodeNetPool_GetNetResource: a miss returns nil, nil.
NodeNetPool_GetNetResource_NoError(t) ==
    /\ pc[t] = "GetNetResource_Load"
    /\ IF Load(loc[t].sp, loc[t].id) = NoCtx
       THEN Return(t, NoCtx, Nil)
       ELSE Goto(t, "GetNetResource_Call",
                 [loc[t] EXCEPT !.h = Load(loc[t].sp, loc[t].id)])
    /\ UNCHANGED <<pool, nodes, wrap, calls>>

\* NodeNetPool.GetNetResource: n.Get(id)
NodeNetPool_GetNetResource(t) ==
    /\ pc[t] = "GetNetResource_Load"
    /\ IF Load(loc[t].sp, loc[t].id) = NoCtx
       THEN Return(t, NoCtx, "NotFound")
       ELSE Goto(t, "GetNetResource_Call",
                 [loc[t] EXCEPT !.h = Load(loc[t].sp, loc[t].id)])
    /\ UNCHANGED <<pool, nodes, wrap, calls>>

\* Mutant of NetResourceCtx_GetNetResource: the connection of the Node the
\* entry was created with.
NetResourceCtx_GetNetResource_Cached(t) ==
    /\ pc[t] = "GetNetResource_Call"
    /\ IF inst[loc[t].h].type \in NetResourceTypes
       THEN Return(t, loc[t].h, Nil)
       ELSE Return(t, NoCtx, "ErrNotImplemented")
    /\ UNCHANGED <<pool, nodes, wrap, calls>>

\* NetResourceCtx.GetNetResource: the connection of the entry's current
\* Node, when that Node is a types.NetResource.
NetResourceCtx_GetNetResource(t) ==
    /\ pc[t] = "GetNetResource_Call"
    /\ LET node == ctx[loc[t].h].node
       IN IF inst[node].type \in NetResourceTypes
          THEN Return(t, node, Nil)
          ELSE Return(t, NoCtx, "ErrNotImplemented")
    /\ UNCHANGED <<pool, nodes, wrap, calls>>

\* ------------------------------------------------------------ NetPool.Del
NetPool_Del(t, ty, id) ==
    /\ Begin(t)
    /\ IF nodeNetPoolMap[ty] = NoPool
       THEN Done(t, [NoRet EXCEPT !.op = "Del", !.type = ty, !.id = id])
       ELSE Start(t, "Del_Load", [NoLoc EXCEPT !.op = "Del", !.type = ty,
                                              !.id = id,
                                              !.sp = nodeNetPoolMap[ty]])
    /\ UNCHANGED <<pool, nodes, wrap>>

\* Where NodeNetPool.Del returns to: the caller, or the Range of Stop.
DelReturn(t) ==
    IF loc[t].op = "Stop"
    THEN Goto(t, "Stop_Inner", [loc[t] EXCEPT !.h = NoCtx, !.id = NoId])
    ELSE Return(t, NoCtx, Nil)

\* NodeNetPool.Del: entries.Load(id); a hit enters Destroy.
NodeNetPool_Del_Load(t) ==
    /\ pc[t] = "Del_Load"
    /\ IF Load(loc[t].sp, loc[t].id) = NoCtx
       THEN DelReturn(t)
       ELSE Goto(t, "Del_Destroy",
                 [loc[t] EXCEPT !.h = Load(loc[t].sp, loc[t].id)])
    /\ UNCHANGED <<pool, nodes, wrap, calls>>

\* The Destroy of the loaded entry takes effect on its current instance.
NodeNetPool_Del_Destroy(t) ==
    /\ pc[t] = "Del_Destroy"
    /\ inst' = [inst EXCEPT ![ctx[loc[t].h].node].state = "destroyed"]
    /\ pc' = [pc EXCEPT ![t] = "Del_Delete"]
    /\ UNCHANGED <<pool, nextInst, ctx, wrap, loc, ret, calls, scopes>>

\* Mutant of NodeNetPool_Del_Delete: every key of the sub-pool is deleted.
NodeNetPool_Del_Delete_All(t) ==
    /\ pc[t] = "Del_Delete"
    /\ entries' = [entries EXCEPT ![loc[t].sp] = [id \in Ids |-> NoCtx]]
    /\ DelReturn(t)
    /\ UNCHANGED <<nodeNetPoolMap, nodes, wrap, calls>>

\* entries.Delete(id)
NodeNetPool_Del_Delete(t) ==
    /\ pc[t] = "Del_Delete"
    /\ entries' = [entries EXCEPT ![loc[t].sp][loc[t].id] = NoCtx]
    /\ DelReturn(t)
    /\ UNCHANGED <<nodeNetPoolMap, nodes, wrap, calls>>

\* ----------------------------------------------------------- NetPool.Stop
NetPool_Stop(t) ==
    /\ Begin(t)
    /\ Start(t, "Stop_Range", [NoLoc EXCEPT !.op = "Stop", !.oStart = PoolKeys])
    /\ UNCHANGED <<pool, nodes, wrap>>

\* One iteration of nodeNetPoolMap.Range in Stop: a key not yet visited is
\* visited with its current value; keys stored after the Range began may
\* be missed.
NetPool_Stop_Range(t) ==
    /\ pc[t] = "Stop_Range"
    /\ LET cand == PoolKeys \ loc[t].oSeen
       IN \/ \E ty \in cand :
               Goto(t, "Stop_Inner",
                    [loc[t] EXCEPT !.type = ty, !.sp = nodeNetPoolMap[ty],
                                   !.oSeen = @ \cup {ty},
                                   !.iStart = EntryKeys(nodeNetPoolMap[ty]),
                                   !.iSeen = {}])
          \/ /\ cand \cap loc[t].oStart = {}
             /\ Return(t, NoCtx, Nil)
    /\ UNCHANGED <<pool, nodes, wrap, calls>>

\* One iteration of entries.Range in NodeNetPool.Stop: n.Del(key).
NodeNetPool_Stop_Range(t) ==
    /\ pc[t] = "Stop_Inner"
    /\ LET cand == EntryKeys(loc[t].sp) \ loc[t].iSeen
       IN \/ \E id \in cand :
               Goto(t, "Del_Load",
                    [loc[t] EXCEPT !.id = id, !.iSeen = @ \cup {id}])
          \/ /\ cand \cap loc[t].iStart = {}
             /\ Goto(t, "Stop_Delete", loc[t])
    /\ UNCHANGED <<pool, nodes, wrap, calls>>

\* Mutant of NetPool_Stop_Delete: the sub-pool stays in nodeNetPoolMap.
NetPool_Stop_Delete_Keep(t) ==
    /\ pc[t] = "Stop_Delete"
    /\ Goto(t, "Stop_Range", [loc[t] EXCEPT !.type = "", !.sp = NoPool,
                                            !.iStart = {}, !.iSeen = {}])
    /\ UNCHANGED <<pool, nodes, wrap, calls>>

\* n.nodeNetPoolMap.Delete(key) after the sub-pool was stopped.
NetPool_Stop_Delete(t) ==
    /\ pc[t] = "Stop_Delete"
    /\ nodeNetPoolMap' = [nodeNetPoolMap EXCEPT ![loc[t].type] = NoPool]
    /\ Goto(t, "Stop_Range", [loc[t] EXCEPT !.type = "", !.sp = NoPool,
                                            !.iStart = {}, !.iSeen = {}])
    /\ UNCHANGED <<entries, nodes, wrap, calls>>

\* --------------------------------------------------------- NetPool.GetAll
NetPool_GetAll(t) ==
    /\ Begin(t)
    /\ Start(t, "GetAll_Range",
            [NoLoc EXCEPT !.op = "GetAll", !.oStart = PoolKeys])
    /\ UNCHANGED <<pool, nodes, wrap>>

\* One iteration of nodeNetPoolMap.Range in GetAll.
NetPool_GetAll_Range(t) ==
    /\ pc[t] = "GetAll_Range"
    /\ LET cand == PoolKeys \ loc[t].oSeen
       IN \/ \E ty \in cand :
               Goto(t, "GetAll_Inner",
                    [loc[t] EXCEPT !.type = ty, !.sp = nodeNetPoolMap[ty],
                                   !.oSeen = @ \cup {ty},
                                   !.iStart = EntryKeys(nodeNetPoolMap[ty]),
                                   !.iSeen = {}])
          \/ /\ cand \cap loc[t].oStart = {}
             /\ Done(t, [NoRet EXCEPT !.op = "GetAll", !.keys = loc[t].oSeen,
                                      !.items = loc[t].items])
    /\ UNCHANGED <<pool, nodes, wrap, calls>>

\* One iteration of entries.Range in NodeNetPool.GetAll.
NodeNetPool_GetAll(t) ==
    /\ pc[t] = "GetAll_Inner"
    /\ LET cand == EntryKeys(loc[t].sp) \ loc[t].iSeen
       IN \/ \E id \in cand :
               Goto(t, "GetAll_Inner",
                    [loc[t] EXCEPT !.iSeen = @ \cup {id},
                                   !.items = @ \cup {<<loc[t].type,
                                                       entries[loc[t].sp][id]>>}])
          \/ /\ cand \cap loc[t].iStart = {}
             /\ Goto(t, "GetAll_Range", [loc[t] EXCEPT !.type = "",
                                                       !.sp = NoPool,
                                                       !.iStart = {},
                                                       !.iSeen = {}])
    /\ UNCHANGED <<pool, nodes, wrap, calls>>

\* ------------------------------------------------- RuleNodeCtx.ReloadSelf
\* What Get(ty, id) finds in the current state.
Lookup(ty, id) ==
    IF nodeNetPoolMap[ty] = NoPool THEN NoCtx ELSE Load(nodeNetPoolMap[ty], id)

\* The handles the pool currently holds.
Pooled == {h \in InstIds : \E ty \in NodeTypes, id \in Ids : Lookup(ty, id) = h}

\* ReloadSelf: decode the definition and instantiate the replacement of the
\* declared type; its initialization begins.
RuleNodeCtx_ReloadSelf(t, h, dsl) ==
    /\ Begin(t)
    /\ h \in Pooled
    /\ LET d == DecodeRuleNode(dsl)
           r == [NoRet EXCEPT !.op = "ReloadSelf", !.dsl = dsl, !.val = h]
       IN IF d.err # Nil
          THEN /\ Done(t, [r EXCEPT !.err = d.err])
               /\ UNCHANGED <<nextInst, inst>>
          ELSE IF InitNodeCtxError(d.def) = "ComponentNotFound"
          THEN /\ Done(t, [r EXCEPT !.err = "ComponentNotFound"])
               /\ UNCHANGED <<nextInst, inst>>
          ELSE /\ nextInst <= MaxInst
               /\ inst' = [inst EXCEPT ![nextInst] =
                             [type |-> d.def.type, server |-> d.def.server,
                              state |-> "initializing"]]
               /\ nextInst' = nextInst + 1
               /\ Start(t, "Reload_Init",
                       [NoLoc EXCEPT !.op = "ReloadSelf", !.dsl = dsl,
                                     !.def = d.def, !.h = h, !.n = nextInst])
    /\ UNCHANGED <<pool, ctx, wrap>>

\* Mutant of RuleNodeCtx_ReloadSelf_Swap: the Instance is replaced and the
\* Definition is not.
RuleNodeCtx_ReloadSelf_SwapNode(t) ==
    /\ pc[t] = "Reload_Init"
    /\ LET l == loc[t]
       IN IF InitNodeCtxError(l.def) # Nil
          THEN /\ inst' = [inst EXCEPT ![l.n].state = "failed"]
               /\ Return(t, l.h, InitNodeCtxError(l.def))
               /\ UNCHANGED ctx
          ELSE /\ inst' = [inst EXCEPT ![l.n].state = "live"]
               /\ ctx' = [ctx EXCEPT ![l.h].node = l.n]
               /\ Goto(t, "Reload_Destroy", [l EXCEPT !.n = ctx[l.h].node])
    /\ UNCHANGED <<pool, nextInst, wrap, calls>>

\* Mutant of RuleNodeCtx_ReloadSelf_Swap: the Definition is replaced before
\* the replacement's initialization is known to have succeeded.
RuleNodeCtx_ReloadSelf_SwapEager(t) ==
    /\ pc[t] = "Reload_Init"
    /\ LET l == loc[t]
       IN IF InitNodeCtxError(l.def) # Nil
          THEN /\ inst' = [inst EXCEPT ![l.n].state = "failed"]
               /\ ctx' = [ctx EXCEPT ![l.h].def = l.def]
               /\ Return(t, l.h, InitNodeCtxError(l.def))
          ELSE /\ inst' = [inst EXCEPT ![l.n].state = "live"]
               /\ ctx' = [ctx EXCEPT ![l.h].def = l.def, ![l.h].node = l.n]
               /\ Goto(t, "Reload_Destroy", [l EXCEPT !.n = ctx[l.h].node])
    /\ UNCHANGED <<pool, nextInst, wrap, calls>>

\* Mutant of RuleNodeCtx_ReloadSelf_Swap: the context keeps its id.
RuleNodeCtx_ReloadSelf_SwapKeepId(t) ==
    /\ pc[t] = "Reload_Init"
    /\ LET l == loc[t]
       IN IF InitNodeCtxError(l.def) # Nil
          THEN /\ inst' = [inst EXCEPT ![l.n].state = "failed"]
               /\ Return(t, l.h, InitNodeCtxError(l.def))
               /\ UNCHANGED ctx
          ELSE /\ inst' = [inst EXCEPT ![l.n].state = "live"]
               /\ ctx' = [ctx EXCEPT
                            ![l.h].def = [l.def EXCEPT !.id = ctx[l.h].def.id],
                            ![l.h].node = l.n]
               /\ Goto(t, "Reload_Destroy", [l EXCEPT !.n = ctx[l.h].node])
    /\ UNCHANGED <<pool, nextInst, wrap, calls>>

\* The replacement's initialization ends: on an error it is released and
\* the context stays as it was; on success Definition and Instance are
\* replaced together.
RuleNodeCtx_ReloadSelf_Swap(t) ==
    /\ pc[t] = "Reload_Init"
    /\ LET l == loc[t]
       IN IF InitNodeCtxError(l.def) # Nil
          THEN /\ inst' = [inst EXCEPT ![l.n].state = "failed"]
               /\ Return(t, l.h, InitNodeCtxError(l.def))
               /\ UNCHANGED ctx
          ELSE /\ inst' = [inst EXCEPT ![l.n].state = "live"]
               /\ ctx' = [ctx EXCEPT ![l.h].def = l.def, ![l.h].node = l.n]
               /\ Goto(t, "Reload_Destroy", [l EXCEPT !.n = ctx[l.h].node])
    /\ UNCHANGED <<pool, nextInst, wrap, calls>>

\* The replaced instance is destroyed after the swap.
RuleNodeCtx_ReloadSelf_Destroy(t) ==
    /\ pc[t] = "Reload_Destroy"
    /\ inst' = [inst EXCEPT ![loc[t].n].state = "destroyed"]
    /\ Return(t, loc[t].h, Nil)
    /\ UNCHANGED <<pool, nextInst, ctx, wrap, calls>>

\* RuleNodeCtx.ReloadChild on the context of a plain node: the call panics
\* with "not support this func" (TestNodeCtx/notSupportThisFunc recovers
\* it); nothing is returned to the caller.
RuleNodeCtx_ReloadChild(t, h) ==
    /\ Begin(t)
    /\ h \in Pooled
    /\ pc' = [pc EXCEPT ![t] = "panicked"]
    /\ ret' = [ret EXCEPT ![t] = [NoRet EXCEPT !.op = "ReloadChild", !.val = h,
                                               !.err = "not support this func"]]
    /\ UNCHANGED <<pool, nodes, wrap, loc, scopes>>

\* ---------------------------------------------------------- NetResourceNode
\* nodeUtils.IsNetPool: strings.HasPrefix(server, prefix)
IsNetPool(server) ==
    /\ Len(server) >= Len(NodeConfigurationPrefixNetResource)
    /\ SubSeq(server, 1, Len(NodeConfigurationPrefixNetResource))
         = NodeConfigurationPrefixNetResource

\* nodeUtils.GetNetResourceId: server[len(prefix):], or "".
GetNetResourceId(server) ==
    IF IsNetPool(server)
    THEN SubSeq(server, Len(NodeConfigurationPrefixNetResource) + 1, Len(server))
    ELSE NoId

\* NetResourceNode.Init; dialOk is whether the local dial succeeds.
NetResourceNode_Init(t, c, netPool, server, dialOk) ==
    /\ Begin(t)
    /\ LET id == GetNetResourceId(server)
           w == [wrap[c] EXCEPT !.NetPool = netPool, !.NodeType = "mqttClient"]
           r == [NoRet EXCEPT !.op = "Init", !.c = c, !.id = server]
       IN IF id = NoId
          THEN /\ wrap' = [wrap EXCEPT ![c] =
                             [w EXCEPT !.InitNetResourceFunc = TRUE,
                                       !.Established = @ \/ dialOk]]
               /\ Done(t, IF dialOk THEN [r EXCEPT !.dial = "ok"]
                          ELSE [r EXCEPT !.dial = "failed",
                                         !.err = "DialError"])
          ELSE /\ wrap' = [wrap EXCEPT ![c] = [w EXCEPT !.NetResourceId = id]]
               /\ Done(t, r)
    /\ UNCHANGED <<pool, nodes>>

\* Mutant of NetResourceNode_GetClient: the connection fetched from the pool
\* at some time is kept and returned.
NetResourceNode_GetClient_Cached(t, c, dialOk) ==
    /\ Begin(t)
    /\ LET w == wrap[c]
           r == [NoRet EXCEPT !.op = "GetClient", !.c = c,
                              !.type = w.NodeType, !.id = w.NetResourceId]
           kept == {h \in InstIds : ctx[h].stored
                                     /\ ctx[h].def.id = w.NetResourceId}
       IN IF w.NetResourceId # NoId
          THEN IF ~w.NetPool
               THEN /\ Done(t, [r EXCEPT !.err = "ErrNetPoolNil"])
                    /\ UNCHANGED <<wrap, entries>>
               ELSE IF kept # {}
               THEN /\ Done(t, [r EXCEPT
                                  !.val = ctx[CHOOSE h \in kept : TRUE].node])
                    /\ UNCHANGED <<wrap, entries>>
               ELSE IF nodeNetPoolMap[w.NodeType] = NoPool
               THEN /\ Done(t, [r EXCEPT !.err = "NotFound"])
                    /\ UNCHANGED <<wrap, entries>>
               ELSE /\ Start(t, "GetNetResource_Load",
                            [NoLoc EXCEPT !.op = "GetClient", !.c = c,
                                          !.type = w.NodeType,
                                          !.id = w.NetResourceId,
                                          !.sp = nodeNetPoolMap[w.NodeType]])
                    /\ UNCHANGED <<wrap, entries>>
          ELSE IF w.InitNetResourceFunc
          THEN /\ Done(t, IF dialOk
                          THEN [r EXCEPT !.val = LocalConn(c), !.dial = "ok"]
                          ELSE [r EXCEPT !.err = "DialError",
                                         !.dial = "failed"])
               /\ wrap' = [wrap EXCEPT ![c].Established = @ \/ dialOk]
               /\ UNCHANGED entries
          ELSE /\ Done(t, [r EXCEPT !.err = "ErrClientNotInit"])
               /\ UNCHANGED <<wrap, entries>>
    /\ UNCHANGED <<nodeNetPoolMap, nodes>>

\* Mutant of NetResourceNode_GetClient: the wrapper takes the entry out of
\* the pool when it fetches its connection.
NetResourceNode_GetClient_Owning(t, c, dialOk) ==
    /\ Begin(t)
    /\ LET w == wrap[c]
           r == [NoRet EXCEPT !.op = "GetClient", !.c = c,
                              !.type = w.NodeType, !.id = w.NetResourceId]
           sp == nodeNetPoolMap[w.NodeType]
       IN IF w.NetResourceId # NoId
          THEN IF ~w.NetPool
               THEN /\ Done(t, [r EXCEPT !.err = "ErrNetPoolNil"])
                    /\ UNCHANGED <<wrap, entries>>
               ELSE IF sp = NoPool \/ Load(sp, w.NetResourceId) = NoCtx
               THEN /\ Done(t, [r EXCEPT !.err = "NotFound"])
                    /\ UNCHANGED <<wrap, entries>>
               ELSE /\ Done(t, [r EXCEPT
                                  !.val = ctx[Load(sp, w.NetResourceId)].node])
                    /\ entries' = [entries EXCEPT
                                     ![sp][w.NetResourceId] = NoCtx]
                    /\ UNCHANGED wrap
          ELSE IF w.InitNetResourceFunc
          THEN /\ Done(t, IF dialOk
                          THEN [r EXCEPT !.val = LocalConn(c), !.dial = "ok"]
                          ELSE [r EXCEPT !.err = "DialError",
                                         !.dial = "failed"])
               /\ wrap' = [wrap EXCEPT ![c].Established = @ \/ dialOk]
               /\ UNCHANGED entries
          ELSE /\ Done(t, [r EXCEPT !.err = "ErrClientNotInit"])
               /\ UNCHANGED <<wrap, entries>>
    /\ UNCHANGED <<nodeNetPoolMap, nodes>>

\* NetResourceNode.GetClient: the pool's connection when a resource id is
\* set, else the local dial function's.
NetResourceNode_GetClient(t, c, dialOk) ==
    /\ Begin(t)
    /\ LET w == wrap[c]
           r == [NoRet EXCEPT !.op = "GetClient", !.c = c,
                              !.type = w.NodeType, !.id = w.NetResourceId]
       IN IF w.NetResourceId # NoId
          THEN IF ~w.NetPool
               THEN /\ Done(t, [r EXCEPT !.err = "ErrNetPoolNil"])
                    /\ UNCHANGED wrap
               ELSE IF nodeNetPoolMap[w.NodeType] = NoPool
               THEN /\ Done(t, [r EXCEPT !.err = "NotFound"])
                    /\ UNCHANGED wrap
               ELSE /\ Start(t, "GetNetResource_Load",
                            [NoLoc EXCEPT !.op = "GetClient", !.c = c,
                                          !.type = w.NodeType,
                                          !.id = w.NetResourceId,
                                          !.sp = nodeNetPoolMap[w.NodeType]])
                    /\ UNCHANGED wrap
          ELSE IF w.InitNetResourceFunc
          THEN /\ Done(t, IF dialOk
                          THEN [r EXCEPT !.val = LocalConn(c), !.dial = "ok"]
                          ELSE [r EXCEPT !.err = "DialError",
                                         !.dial = "failed"])
               /\ wrap' = [wrap EXCEPT ![c].Established = @ \/ dialOk]
          ELSE /\ Done(t, [r EXCEPT !.err = "ErrClientNotInit"])
               /\ UNCHANGED wrap
    /\ UNCHANGED <<pool, nodes>>

\* Mutant of NetResourceNode_Connect: a plain store, every caller wins.
NetResourceNode_Connect_Store(t, c) ==
    /\ Begin(t)
    /\ wrap' = [wrap EXCEPT ![c].Connecting = 1]
    /\ pc' = [pc EXCEPT ![t] = "Dialing"]
    /\ loc' = [loc EXCEPT ![t] = [NoLoc EXCEPT !.op = "Connect", !.c = c]]
    /\ ret' = [ret EXCEPT ![t] = [NoRet EXCEPT !.op = "Connect", !.c = c,
                                               !.val = 1]]
    /\ UNCHANGED <<pool, nodes, scopes>>

\* NetResourceNode.Connect: CompareAndSwapInt32(&Connecting, 0, 1); the
\* winner goes on to dial.
NetResourceNode_Connect(t, c) ==
    /\ Begin(t)
    /\ IF wrap[c].Connecting = 0
       THEN /\ wrap' = [wrap EXCEPT ![c].Connecting = 1]
            /\ pc' = [pc EXCEPT ![t] = "Dialing"]
            /\ loc' = [loc EXCEPT ![t] = [NoLoc EXCEPT !.op = "Connect",
                                                       !.c = c]]
            /\ ret' = [ret EXCEPT ![t] = [NoRet EXCEPT !.op = "Connect",
                                                       !.c = c, !.val = 1]]
            /\ UNCHANGED scopes
       ELSE /\ Done(t, [NoRet EXCEPT !.op = "Connect", !.c = c, !.val = 0])
            /\ UNCHANGED wrap
    /\ UNCHANGED <<pool, nodes>>

\* NetResourceNode.IsConnecting: LoadInt32(&Connecting) == 1
NetResourceNode_IsConnecting(t, c) ==
    /\ Begin(t)
    /\ Done(t, [NoRet EXCEPT !.op = "IsConnecting", !.c = c,
                             !.val = IF wrap[c].Connecting = 1 THEN 1 ELSE 0])
    /\ UNCHANGED <<pool, nodes, wrap>>

\* Mutant of NetResourceNode_Connected: the flag is not reset.
NetResourceNode_Connected_Keep(t) ==
    /\ pc[t] = "Dialing"
    /\ Done(t, [NoRet EXCEPT !.op = "Connected", !.c = loc[t].c])
    /\ UNCHANGED <<pool, nodes, wrap, calls>>

\* NetResourceNode.Connected, called by the winner when its dial has ended:
\* StoreInt32(&Connecting, 0)
NetResourceNode_Connected(t) ==
    /\ pc[t] = "Dialing"
    /\ wrap' = [wrap EXCEPT ![loc[t].c].Connecting = 0]
    /\ Done(t, [NoRet EXCEPT !.op = "Connected", !.c = loc[t].c])
    /\ UNCHANGED <<pool, nodes, calls>>

\* RuleEngine.Stop of the engine that holds consumer c: the consumer is
\* gone, the pool is not touched (TestEngineFromNetPool: ruleEngine2 works on
\* the same resource after ruleEngine1.Stop()).
RuleEngine_Stop(t, c) ==
    /\ Begin(t)
    /\ wrap' = [wrap EXCEPT ![c].Stopped = TRUE]
    /\ Done(t, [NoRet EXCEPT !.op = "EngineStop", !.c = c])
    /\ UNCHANGED <<pool, nodes>>

\* -------------------------------------------------------- processVariables
\* str.SprintfVar: every placeholder of the scope whose name the scope
\* holds is replaced by the value; everything else stays as it is.
SprintfVar_Blank(segs, scope, env) ==
    [i \in 1..Len(segs) |->
        IF segs[i].kind = "var" /\ segs[i].scope = scope
        THEN Lit(IF env[segs[i].name] # Unset THEN env[segs[i].name] ELSE "")
        ELSE segs[i]]

SprintfVar(segs, scope, env) ==
    [i \in 1..Len(segs) |->
        IF /\ segs[i].kind = "var"
           /\ segs[i].scope = scope
           /\ env[segs[i].name] # Unset
        THEN Lit(env[segs[i].name])
        ELSE segs[i]]

\* processVariables: the strings of the configuration are resolved against
\* the process-wide properties, then against the vars and the decryptSecrets
\* of the pipeline context when there is one; other values are copied.
processVariables(props, chainCtx, configuration) ==
    LET varsEnv == IF chainCtx.nil THEN EmptyScope ELSE chainCtx.vars
        decryptSecretEnv ==
            IF chainCtx.nil THEN EmptyScope ELSE chainCtx.decryptSecrets
    IN [key \in DOMAIN configuration |->
          LET value == configuration[key]
          IN IF value.str
             THEN Str(SprintfVar(
                        SprintfVar(SprintfVar(value.segs, "global", props),
                                   "vars", varsEnv),
                        "decryptSecrets", decryptSecretEnv))
             ELSE value]

\* A call of processVariables with the current properties.
ProcessVariables(chainCtx, configuration) ==
    /\ resolved' = [raw |-> configuration, chainCtx |-> chainCtx,
                    result |-> processVariables(Properties, chainCtx,
                                                configuration),
                    err |-> Nil,
                    prevRaw |-> resolved.raw,
                    prevResult |-> resolved.result]
    /\ UNCHANGED <<pool, nodes, wrap, pc, loc, ret, calls, Properties>>

\* config.Properties.PutValue(name, value)
Properties_PutValue(n, v) ==
    /\ Properties' = [Properties EXCEPT ![n] = v]
    /\ UNCHANGED <<pool, nodes, wrap, pc, loc, ret, calls, resolved>>

\* config.Properties = types.NewProperties()
NewProperties ==
    /\ Properties' = EmptyScope
    /\ UNCHANGED <<pool, nodes, wrap, pc, loc, ret, calls, resolved>>

\* ------------------------------------------------------------------- steps
CreateStep(t) ==
    \/ NodeNetPool_New(t)
    \/ NodeNetPool_NewFromDef_Load(t)
    \/ NodeNetPool_NewFromDef_Store(t)

ResourceStep(t) ==
    \/ NodeNetPool_GetNetResource(t)
    \/ NetResourceCtx_GetNetResource(t)

DelStep(t) ==
    \/ NodeNetPool_Del_Load(t)
    \/ NodeNetPool_Del_Destroy(t)
    \/ NodeNetPool_Del_Delete(t)

StopStep(t) ==
    \/ NetPool_Stop_Range(t)
    \/ NodeNetPool_Stop_Range(t)
    \/ NetPool_Stop_Delete(t)

GetAllStep(t) ==
    \/ NetPool_GetAll_Range(t)
    \/ NodeNetPool_GetAll(t)

ReloadStep(t) ==
    \/ RuleNodeCtx_ReloadSelf_Swap(t)
    \/ RuleNodeCtx_ReloadSelf_Destroy(t)

\* The calls of a specification that bounds their number count against it.
CountedTo(n) == calls < n /\ calls' = calls + 1
Counted == CountedTo(MaxCalls)

\* -------------------------------------------------------------------- Spec
\* One thread calls the pool and reloads its entries, one call at a time,
\* with every input.
MainThread == 1

SeqDsls == {d \in Dsls : d.type # "notFound" /\ d.server # "bad"}

SeqCall(t) ==
    \/ \E ty \in NodeTypes, id \in Ids \cup {NoId}, dsl \in SeqDsls :
          NetPool_New(t, ty, id, dsl)
    \/ \E def \in Defs : NetPool_NewFromDef(t, def)
    \/ \E ty \in NodeTypes, id \in Ids : NetPool_Get(t, ty, id)
    \/ \E ty \in NodeTypes, id \in Ids : NetPool_GetNetResource(t, ty, id)
    \/ \E ty \in NodeTypes, id \in Ids : NetPool_Del(t, ty, id)
    \/ NetPool_Stop(t)
    \/ NetPool_GetAll(t)

SeqStep(t) ==
    \/ CreateStep(t)
    \/ NodeNetPool_Get(t)
    \/ ResourceStep(t)
    \/ DelStep(t)
    \/ StopStep(t)
    \/ GetAllStep(t)

Next ==
    \/ SeqCall(MainThread) /\ Counted
    \/ SeqStep(MainThread)

Spec == Init /\ [][Next]_vars

\* ---------------------------------------------------------------- SpecRace
\* Two threads call the pool concurrently; they interleave at every access
\* to the shared maps and entries.
RaceThreads == {1, 2}
RaceDsls == {d \in Dsls : d.ok /\ d.type = "mqttClient" /\ d.server = "p1"}
RaceDefs == {d \in Defs : d.type = "mqttClient"}

RaceCall(t) ==
    \/ \E id \in Ids, dsl \in RaceDsls : NetPool_New(t, "mqttClient", id, dsl)
    \/ \E def \in RaceDefs : NetPool_NewFromDef(t, def)
    \/ \E id \in Ids : NetPool_Get(t, "mqttClient", id)
    \/ \E id \in Ids : NetPool_Del(t, "mqttClient", id)
    \/ NetPool_Stop(t)

RaceStep(t) ==
    \/ CreateStep(t)
    \/ NodeNetPool_Get(t)
    \/ DelStep(t)
    \/ StopStep(t)

NextRace ==
    \E t \in RaceThreads : (RaceCall(t) /\ Counted) \/ RaceStep(t)

SpecRace == Init /\ [][NextRace]_vars

\* -------------------------------------------------------------- SpecCreate
\* Every thread creates entries concurrently; nothing is deleted.
CreateCall(t) ==
    \/ \E ty \in NodeTypes, id \in Ids, dsl \in RaceDsls :
          NetPool_New(t, ty, id, dsl)
    \/ \E def \in RaceDefs : NetPool_NewFromDef(t, def)

NextCreate ==
    \E t \in Threads : (CreateCall(t) /\ Counted) \/ CreateStep(t)

SpecCreate == Init /\ [][NextCreate]_vars

\* -------------------------------------------------------------- SpecReload
\* Two threads create, reload and read pooled entries concurrently.
ReloadDsls == {d \in Dsls : d.type # "notFound"}

ReloadCall(t) ==
    \/ \E def \in RaceDefs : NetPool_NewFromDef(t, def)
    \/ \E h \in InstIds, dsl \in ReloadDsls : RuleNodeCtx_ReloadSelf(t, h, dsl)
    \/ \E id \in Ids : NetPool_GetNetResource(t, "mqttClient", id)

NextReload ==
    \E t \in RaceThreads :
        \/ ReloadCall(t) /\ Counted
        \/ NodeNetPool_NewFromDef_Load(t)
        \/ NodeNetPool_NewFromDef_Store(t)
        \/ ReloadStep(t)
        \/ ResourceStep(t)

SpecReload == Init /\ [][NextReload]_vars

\* ---------------------------------------------------------------- SpecWrap
\* One thread sets up consumers' wrappers and a pool and uses them, one
\* call at a time.
WrapDsls == {d \in RaceDsls \cup {[r EXCEPT !.server = "p2"] : r \in RaceDsls} :
               TRUE}

WrapCall(t) ==
    \/ \E c \in Consumers, s \in WrapperServers, ok \in BOOLEAN :
          NetResourceNode_Init(t, c, TRUE, s, ok)
    \/ \E c \in Consumers, ok \in BOOLEAN : NetResourceNode_GetClient(t, c, ok)
    \/ \E def \in RaceDefs : NetPool_NewFromDef(t, def)
    \/ \E h \in InstIds, dsl \in WrapDsls : RuleNodeCtx_ReloadSelf(t, h, dsl)
    \/ \E id \in Ids : NetPool_Del(t, "mqttClient", id)
    \/ NetPool_Stop(t)

NextWrap ==
    \/ WrapCall(MainThread) /\ CountedTo(MaxWrapCalls)
    \/ NodeNetPool_NewFromDef_Load(MainThread)
    \/ NodeNetPool_NewFromDef_Store(MainThread)
    \/ ReloadStep(MainThread)
    \/ ResourceStep(MainThread)
    \/ DelStep(MainThread)
    \/ StopStep(MainThread)

SpecWrap == Init /\ [][NextWrap]_vars

\* --------------------------------------------------------------- SpecGuard
\* Every thread uses the connect guard of the wrappers: it dials only after
\* winning Connect and calls Connected when its own dial has ended.
GuardCall(t) ==
    \/ \E c \in Consumers : NetResourceNode_Connect(t, c)
    \/ \E c \in Consumers : NetResourceNode_IsConnecting(t, c)

NextGuard ==
    \E t \in Threads :
        \/ GuardCall(t) /\ Counted
        \/ NetResourceNode_Connected(t)

SpecGuard == Init /\ [][NextGuard]_vars

\* ---------------------------------------------------------------- SpecCtx
\* One thread creates pooled node contexts, reloads them with every kind of
\* definition and reads them, one call at a time.
CtxCall(t) ==
    \/ \E def \in RaceDefs : NetPool_NewFromDef(t, def)
    \/ \E h \in InstIds, dsl \in Dsls : RuleNodeCtx_ReloadSelf(t, h, dsl)
    \/ \E h \in InstIds : RuleNodeCtx_ReloadChild(t, h)
    \/ \E id \in Ids : NetPool_GetNetResource(t, "mqttClient", id)

NextCtx ==
    \/ CtxCall(MainThread) /\ Counted
    \/ NodeNetPool_NewFromDef_Load(MainThread)
    \/ NodeNetPool_NewFromDef_Store(MainThread)
    \/ ReloadStep(MainThread)
    \/ ResourceStep(MainThread)

SpecCtx == Init /\ [][NextCtx]_vars

\* -------------------------------------------------------------- SpecKeyed
\* One thread creates entries under explicit and default keys, looks them
\* up and deletes them, one call at a time.
KeyedDsls == {d \in Dsls : d.type # "notFound" /\ d.server \in {"", "p1"}}

KeyedCall(t) ==
    \/ \E ty \in NodeTypes, id \in Ids \cup {NoId}, dsl \in KeyedDsls :
          NetPool_New(t, ty, id, dsl)
    \/ \E def \in Defs : NetPool_NewFromDef(t, def)
    \/ \E ty \in NodeTypes, id \in Ids : NetPool_Get(t, ty, id)
    \/ \E ty \in NodeTypes, id \in Ids : NetPool_GetNetResource(t, ty, id)
    \/ \E ty \in NodeTypes, id \in Ids : NetPool_Del(t, ty, id)

NextKeyed ==
    \/ KeyedCall(MainThread) /\ Counted
    \/ CreateStep(MainThread)
    \/ NodeNetPool_Get(MainThread)
    \/ ResourceStep(MainThread)
    \/ DelStep(MainThread)

SpecKeyed == Init /\ [][NextKeyed]_vars

\* ---------------------------------------------------------------- SpecOwn
\* One thread sets up a pooled resource and the consumers that refer to it;
\* the consumers use their wrappers and their engines are stopped.
OwnServers == {s \in WrapperServers : GetNetResourceId(s) # NoId}

OwnCall(t) ==
    \/ \E def \in RaceDefs : NetPool_NewFromDef(t, def)
    \/ \E c \in Consumers, s \in OwnServers :
          NetResourceNode_Init(t, c, TRUE, s, TRUE)
    \/ \E c \in Consumers : NetResourceNode_GetClient(t, c, TRUE)
    \/ \E c \in Consumers : NetResourceNode_Connect(t, c)
    \/ \E c \in Consumers : RuleEngine_Stop(t, c)

NextOwn ==
    \/ OwnCall(MainThread) /\ CountedTo(MaxWrapCalls)
    \/ NodeNetPool_NewFromDef_Load(MainThread)
    \/ NodeNetPool_NewFromDef_Store(MainThread)
    \/ ResourceStep(MainThread)
    \/ NetResourceNode_Connected(MainThread)

SpecOwn == Init /\ [][NextOwn]_vars

\* ---------------------------------------------------------------- SpecInit
\* One thread creates entries from every kind of bytes, well-formed or not,
\* of registered and unregistered types, and looks them up.
InitDsls == {d \in Dsls : d.server \in {"", "p1", "bad"}}

InitCall(t) ==
    \/ \E id \in Ids \cup {NoId}, dsl \in InitDsls :
          NetPool_New(t, "mqttClient", id, dsl)
    \/ \E id \in Ids : NetPool_Get(t, "mqttClient", id)

NextInit ==
    \/ InitCall(MainThread) /\ Counted
    \/ CreateStep(MainThread)
    \/ NodeNetPool_Get(MainThread)

SpecInit == Init /\ [][NextInit]_vars

\* ---------------------------------------------------------------- SpecVars
\* Configurations are resolved while the process-wide properties change.
NextVars ==
    \/ \E ch \in ChainCtxs, cfg \in Configurations : ProcessVariables(ch, cfg)
    \/ \E n \in VarNames, v \in VarValues : Properties_PutValue(n, v)
    \/ NewProperties

SpecVars == Init /\ [][NextVars]_vars

\* ---------------------------------------------------------------- SpecStop
\* One thread creates entries and looks them up while another stops the
\* pool.
Creator == 1
Stopper == 2

StopCall(t) ==
    \/ /\ t = Creator
       /\ \/ \E id \in Ids, dsl \in RaceDsls :
                NetPool_New(t, "mqttClient", id, dsl)
          \/ \E def \in RaceDefs : NetPool_NewFromDef(t, def)
          \/ \E id \in Ids : NetPool_Get(t, "mqttClient", id)
    \/ /\ t = Stopper
       /\ NetPool_Stop(t)

NextStop ==
    \E t \in {Creator, Stopper} :
        \/ StopCall(t) /\ Counted
        \/ CreateStep(t)
        \/ NodeNetPool_Get(t)
        \/ DelStep(t)
        \/ StopStep(t)

SpecStop == Init /\ [][NextStop]_vars

\* --------------------------------------------------------------- SpecRetry
\* Every thread uses locally dialing wrappers and their connect guard for
\* ever, with no bound on its calls; a thread that won Connect eventually
\* calls Connected.
RetryServers == {s \in WrapperServers : ~IsNetPool(s)}

RetryCall(t) ==
    \/ \E c \in Consumers, s \in RetryServers, ok \in BOOLEAN :
          NetResourceNode_Init(t, c, TRUE, s, ok)
    \/ \E c \in Consumers, ok \in BOOLEAN : NetResourceNode_GetClient(t, c, ok)
    \/ \E c \in Consumers : NetResourceNode_Connect(t, c)
    \/ \E c \in Consumers : NetResourceNode_IsConnecting(t, c)

NextRetry ==
    \E t \in Threads :
        \/ RetryCall(t) /\ UNCHANGED calls
        \/ NetResourceNode_Connected(t)

SpecRetry ==
    /\ Init
    /\ [][NextRetry]_vars
    /\ \A t \in Threads : WF_vars(NetResourceNode_Connected(t))

\* ------------------------------------------------------------------ claims
CreateOps == {"New", "NewFromDef"}

\* A thread's last call created or fetched an entry.
Created(t) ==
    /\ pc[t] = "idle"
    /\ ret[t].op \in CreateOps
    /\ ret[t].err = Nil

\* The number of entries Get can find under a type.
EntryCount(ty) ==
    IF nodeNetPoolMap[ty] = NoPool THEN 0
    ELSE Cardinality(EntryKeys(nodeNetPoolMap[ty]))

\* C1: concurrent creation calls for one new (type,id) build exactly one
\* instance, and every caller receives the identical entry.
C1_OneInstancePerKey ==
    /\ \A t1, t2 \in Threads :
          (t1 # t2 /\ pc[t1] = "NewFromDef_Init" /\ pc[t2] = "NewFromDef_Init")
          => ~(loc[t1].sp = loc[t2].sp /\ loc[t1].def.id = loc[t2].def.id)
    /\ \A t1, t2 \in Threads :
          (Created(t1) /\ Created(t2) /\ ret[t1].type = ret[t2].type
             /\ ret[t1].id = ret[t2].id)
          => ret[t1].val = ret[t2].val

\* C2: a creation call whose key is already in the pool returns the
\* existing entry whatever the bytes are, builds no instance and changes
\* neither the pool nor the entry's definition.
KeyHit(t) ==
    \/ pc[t] = "New_Load" /\ Load(loc[t].sp, loc[t].id) # NoCtx
    \/ pc[t] = "NewFromDef_Load" /\ Load(loc[t].sp, loc[t].def.id) # NoCtx

Existing(t) ==
    IF pc[t] = "New_Load" THEN Load(loc[t].sp, loc[t].id)
    ELSE Load(loc[t].sp, loc[t].def.id)

C2_ExistingKeyReturnsEntry ==
    [][\A t \in Threads :
         /\ (pc[t] = "idle" /\ pc'[t] \in {"New_Load", "NewFromDef_Load"}
               /\ Lookup(loc'[t].type, loc'[t].id) # NoCtx)
            => (KeyHit(t))' /\ UNCHANGED <<pool, nodes>>
         /\ KeyHit(t)
            => /\ pc'[t] = "idle"
               /\ ret'[t].val = Existing(t)
               /\ ret'[t].err = Nil
               /\ UNCHANGED <<pool, nodes>>]_vars

C2_Witness ==
    \E t \in Threads :
        /\ Created(t)
        /\ ret[t].op = "New"
        /\ ~ret[t].dsl.ok
        /\ ret[t].val = Lookup(ret[t].type, ret[t].id)
        /\ ret[t].val # NoCtx

\* C3: after a successful ReloadSelf of a pooled entry, GetClient of every
\* pooled-mode consumer of its key returns the connection of the instance
\* the reload installed; the reload changes neither a wrapper nor the pool
\* slot.
C3_ReloadSeenByConsumers ==
    /\ [](\A t \in Threads :
            (pc[t] = "idle" /\ ret[t].op = "GetClient" /\ ret[t].err = Nil
               /\ ret[t].id # NoId)
            => LET h == Lookup(ret[t].type, ret[t].id)
               IN /\ h # NoCtx
                  /\ ret[t].val = ctx[h].node
                  /\ inst[ret[t].val].server = ctx[h].def.server)
    /\ [][\A t \in Threads :
            /\ (pc[t] \in {"Reload_Init", "Reload_Destroy"}
                  \/ pc'[t] = "Reload_Init")
               => UNCHANGED <<pool, wrap>>
            /\ (pc[t] = "Reload_Init" /\ pc'[t] = "Reload_Destroy")
               => /\ ctx'[loc[t].h].node = loc[t].n
                  /\ inst'[loc[t].n].server = loc[t].def.server]_vars

C3_Witness ==
    \E t \in Threads :
        /\ pc[t] = "idle" /\ ret[t].op = "GetClient" /\ ret[t].err = Nil
        /\ \A c \in Consumers : wrap[c].NetResourceId = ret[t].id
        /\ ret[t].id # NoId
        /\ ret[t].val # Lookup(ret[t].type, ret[t].id)
        /\ inst[ret[t].val].server = "p2"
        /\ inst[Lookup(ret[t].type, ret[t].id)].state = "destroyed"

\* C4: when Stop has returned and nothing else ran, every entry that was in
\* the pool is destroyed, every Get misses and GetAll has nothing to return.
C4_StopEmptiesPool ==
    \A t \in Threads :
        (pc[t] = "idle" /\ ret[t].op = "Stop")
        => /\ PoolKeys = {}
           /\ \A ty \in NodeTypes, id \in Ids : Lookup(ty, id) = NoCtx
           /\ \A h \in InstIds :
                 ctx[h].stored => inst[ctx[h].node].state = "destroyed"

C4_Witness ==
    \E t \in Threads :
        /\ pc[t] = "idle" /\ ret[t].op = "Stop"
        /\ Cardinality({h \in InstIds : ctx[h].stored}) >= 2

\* C5: creating an entry of a component that is no NetResource fails with
\* ErrNotImplemented, returns no entry and leaves the number of entries
\* under every type as it was.
CreatingNonNet(t) ==
    \/ /\ pc[t] = "New_Load"
       /\ loc[t].dsl.ok
       /\ DecodeRuleNode(loc[t].dsl).def.type \in NodeTypes \ NetResourceTypes
    \/ /\ pc[t] \in {"NewFromDef_Load", "NewFromDef_Init"}
       /\ loc[t].def.type \in NodeTypes \ NetResourceTypes

C5_NotImplementedLeavesPool ==
    [][\A t \in Threads :
         /\ (CreatingNonNet(t) \/ (CreatingNonNet(t))')
            => \A ty \in NodeTypes : (EntryCount(ty))' = EntryCount(ty)
         /\ (pc[t] = "NewFromDef_Init" /\ CreatingNonNet(t)
               /\ InitNodeCtxError(loc[t].def) = Nil)
            => /\ pc'[t] = "idle"
               /\ ret'[t].err = "ErrNotImplemented"
               /\ ret'[t].val = NoCtx]_vars

C5_Witness ==
    \E t \in Threads :
        /\ pc[t] = "idle"
        /\ ret[t].op \in CreateOps
        /\ ret[t].err = "ErrNotImplemented"
        /\ \E ty \in NodeTypes : EntryCount(ty) > 0

\* C6: when a creation call returns an error, no initialized instance that
\* is not destroyed is left outside the pool.
C6_NoLeakOnError ==
    \A t \in Threads :
        (pc[t] = "idle" /\ ret[t].op \in CreateOps /\ ret[t].err # Nil)
        => \A i \in InstIds :
              inst[i].state = "live" => \E h \in Pooled : ctx[h].node = i

\* C7: a thread is never constructing an instance for a key while another
\* thread is destroying an entry of that key.
C7_ConstructDestroyExclusive ==
    \A t1, t2 \in Threads :
        ~(/\ pc[t1] = "NewFromDef_Init"
          /\ pc[t2] = "Del_Destroy"
          /\ loc[t1].sp = loc[t2].sp
          /\ loc[t1].def.id = loc[t2].id)

\* C8: threads that concurrently make the first creation calls of a type
\* all work on the one sub-pool installed for it, and every entry one of
\* them created is what Get then finds under its key.
C8_OneSubPool ==
    /\ \A t \in Threads :
          pc[t] # "idle" => loc[t].sp = nodeNetPoolMap[loc[t].type]
    /\ \A t \in Threads :
          Created(t) => Lookup(ret[t].type, ret[t].id) = ret[t].val

\* C9: with callers that dial only after winning Connect and call Connected
\* when their dial has ended, at most one caller dials a resource at a
\* time and the flag is set exactly while one does.
Dialers(c) == {t \in Threads : pc[t] = "Dialing" /\ loc[t].c = c}

C9_SingleFlight ==
    /\ [](\A c \in Consumers :
            /\ Cardinality(Dialers(c)) <= 1
            /\ wrap[c].Connecting = 1 <=> Dialers(c) # {})
    /\ [][\A t \in Threads :
            /\ (ret'[t] # ret[t] /\ ret'[t].op = "Connect")
               => /\ ret'[t].val = 1 <=> wrap[ret'[t].c].Connecting = 0
                  /\ ret'[t].val = 1 <=> pc'[t] = "Dialing"
            /\ (ret'[t] # ret[t] /\ ret'[t].op = "IsConnecting")
               => (ret'[t].val = 1 <=> Dialers(ret'[t].c) # {})]_vars

C9_Witness ==
    \E c \in Consumers, t1, t2 \in Threads :
        /\ pc[t1] = "Dialing" /\ loc[t1].c = c
        /\ pc[t2] = "idle" /\ ret[t2].op = "Connect" /\ ret[t2].c = c
        /\ ret[t2].val = 0

ReloadFailed(t) ==
    /\ pc[t] = "idle"
    /\ ret[t].op = "ReloadSelf"
    /\ ret[t].err # Nil

C11_FailedReloadKeepsContext ==
    /\ [](\A t \in Threads :
            ReloadFailed(t)
            => LET h == ret[t].val
               IN /\ inst[ctx[h].node].state = "live"
                  /\ inst[ctx[h].node].type = ctx[h].def.type
                  /\ inst[ctx[h].node].server = ctx[h].def.server)
    /\ [][\A t \in Threads :
            (pc'[t] = "Reload_Init" \/ (ReloadFailed(t))')
            => /\ UNCHANGED ctx
               /\ \A h \in InstIds :
                     ctx[h].node # NoCtx
                     => inst'[ctx[h].node] = inst[ctx[h].node]]_vars

C11_Witness ==
    \E t \in Threads :
        /\ ReloadFailed(t)
        /\ ret[t].err = "ComponentInitError"
        /\ ctx[ret[t].val].node = ret[t].val
        /\ ctx[ret[t].val].def.server = "p1"
        /\ \E i \in InstIds : inst[i].state = "failed" /\ inst[i].server = "bad"

\* C12: ReloadChild on the context of a plain node returns an
\* UnsupportedOperation error to its caller and raises no panic.
C12_ReloadChildUnsupported ==
    \A t \in Threads :
        ret[t].op = "ReloadChild"
        => /\ pc[t] # "panicked"
           /\ ret[t].err = "UnsupportedOperation"

\* The instance Get(ty, id) leads to, NoCtx on a miss.
NodeOf(ty, id) ==
    IF Lookup(ty, id) = NoCtx THEN NoCtx ELSE ctx[Lookup(ty, id)].node

\* C13: Del(type,id) on a present key destroys that entry and removes it,
\* so that Get(type,id) then misses; on an absent id or a type without a
\* sub-pool it changes nothing; it reports no error, and every entry under
\* another key stays present and undestroyed.
C13_DelRemovesOnlyItsKey ==
    /\ [](\A t \in Threads :
            (pc[t] = "idle" /\ ret[t].op = "Del")
            => /\ Lookup(ret[t].type, ret[t].id) = NoCtx
               /\ ret[t].err = Nil
               /\ \A h \in InstIds :
                     (ctx[h].stored /\ h \notin Pooled)
                     => inst[ctx[h].node].state = "destroyed")
    /\ [][\A t \in Threads :
            /\ (loc'[t].op = "Del" \/ loc[t].op = "Del")
               => LET l == IF loc[t].op = "Del" THEN loc[t] ELSE loc'[t]
                  IN /\ UNCHANGED <<nodeNetPoolMap, nextInst, ctx>>
                     /\ \A ty \in NodeTypes, id \in Ids :
                           (ty # l.type \/ id # l.id)
                           => /\ (Lookup(ty, id))' = Lookup(ty, id)
                              /\ NodeOf(ty, id) # NoCtx
                                 => inst'[NodeOf(ty, id)] = inst[NodeOf(ty, id)]
            /\ (pc[t] = "Del_Load" /\ Load(loc[t].sp, loc[t].id) = NoCtx)
               => /\ UNCHANGED <<pool, nodes>>
                  /\ pc'[t] = "idle"
            /\ (pc[t] = "idle" /\ (pc'[t] = "Del_Load" \/ ret'[t].op = "Del"))
               => UNCHANGED <<pool, nodes>>]_vars

C13_Witness ==
    \E t \in Threads, h1, h2 \in InstIds :
        /\ pc[t] = "idle" /\ ret[t].op = "Del"
        /\ ctx[h1].stored /\ ctx[h1].def.id = ret[t].id
        /\ inst[ctx[h1].node].state = "destroyed"
        /\ h2 \in Pooled /\ inst[ctx[h2].node].state = "live"
        /\ Lookup(ret[t].type, ctx[h2].def.id) = h2

\* What the entry h itself answers to GetNetResource: <<connection, error>>.
EntryNetResource(h) ==
    IF inst[ctx[h].node].type \in NetResourceTypes
    THEN <<ctx[h].node, Nil>>
    ELSE <<NoCtx, "ErrNotImplemented">>

\* C14: GetNetResource(type,id) returns a not-found error and no connection
\* when no entry exists for (type,id), whether the type has no sub-pool,
\* the sub-pool lacks the id or the entry was deleted; when the entry
\* exists it returns what the entry's own GetNetResource returns.
C14_GetNetResourceNotFound ==
    \A t \in Threads :
        (pc[t] = "idle" /\ ret[t].op = "GetNetResource")
        => IF Lookup(ret[t].type, ret[t].id) = NoCtx
           THEN ret[t].err = "NotFound" /\ ret[t].val = NoCtx
           ELSE <<ret[t].val, ret[t].err>>
                   = EntryNetResource(Lookup(ret[t].type, ret[t].id))

C14_Witness ==
    \E t \in Threads, h \in InstIds :
        /\ pc[t] = "idle" /\ ret[t].op = "GetNetResource"
        /\ ret[t].err = "NotFound"
        /\ nodeNetPoolMap[ret[t].type] # NoPool
        /\ ctx[h].stored /\ ctx[h].def.id = ret[t].id
        /\ inst[ctx[h].node].state = "destroyed"

\* A thread's last call was the GetClient of a wrapper in pooled mode with
\* a pool configured.
PooledGetClient(t) ==
    /\ pc[t] = "idle"
    /\ ret[t].op = "GetClient"
    /\ ret[t].id # NoId
    /\ ret[t].err # "ErrNetPoolNil"

\* C15: once the pooled entry (type,id) was removed by Stop or Del, the
\* GetClient of a pooled-mode consumer of that key fails with a not-found
\* error; it never returns the connection of a destroyed entry.
C15_RemovedEntryNotFound ==
    \A t \in Threads :
        PooledGetClient(t)
        => /\ Lookup(ret[t].type, ret[t].id) = NoCtx
              => ret[t].err = "NotFound" /\ ret[t].val = NoCtx
           /\ ret[t].err = Nil => inst[ret[t].val].state = "live"

C15_Witness ==
    \E t \in Threads, h \in InstIds :
        /\ PooledGetClient(t)
        /\ ret[t].err = "NotFound"
        /\ ctx[h].stored /\ ctx[h].def.id = ret[t].id
        /\ inst[ctx[h].node].state = "destroyed"

\* The calls of a consumer: its wrapper's operations and its engine's stop.
ConsumerOps == {"Init", "GetClient", "Connect", "Connected", "EngineStop"}

\* C16: no operation of a consumer (Init, GetClient, Connect, Connected,
\* the stop of its engine) removes or destroys a pool entry or changes a
\* node context, and the GetClient of a pooled-mode consumer whose key is in
\* the pool returns the live connection of that entry whatever the other
\* consumers did before.
C16_ConsumerNeverOwns ==
    /\ [](\A t \in Threads :
            (PooledGetClient(t) /\ Lookup(ret[t].type, ret[t].id) # NoCtx)
            => /\ ret[t].err = Nil
               /\ ret[t].val = NodeOf(ret[t].type, ret[t].id)
               /\ inst[ret[t].val].state = "live")
    /\ [][\A t \in Threads :
            (loc[t].op \in ConsumerOps \/ loc'[t].op \in ConsumerOps
               \/ (ret'[t] # ret[t] /\ ret'[t].op \in ConsumerOps))
            => UNCHANGED <<pool, nodes>>]_vars

C16_Witness ==
    \E t \in Threads, c \in Consumers :
        /\ PooledGetClient(t)
        /\ ret[t].err = Nil
        /\ c # ret[t].c
        /\ wrap[c].Stopped
        /\ wrap[c].NetResourceId = ret[t].id
        /\ ~wrap[ret[t].c].Stopped

\* C17: an Init whose reference value carries the pool prefix records the
\* resource id, returns no error and does not invoke the local dial
\* function; an Init whose value lacks the prefix invokes the local dial
\* function once and returns its error.
C17_InitChoosesMode ==
    \A t \in Threads :
        (pc[t] = "idle" /\ ret[t].op = "Init")
        => IF IsNetPool(ret[t].id)
           THEN /\ ret[t].dial = "none"
                /\ ret[t].err = Nil
                /\ wrap[ret[t].c].NetResourceId = GetNetResourceId(ret[t].id)
           ELSE /\ ret[t].dial \in {"ok", "failed"}
                /\ ret[t].err = Nil <=> ret[t].dial = "ok"
                /\ ret[t].err = "DialError" <=> ret[t].dial = "failed"

\* C18: in local mode GetClient returns the wrapper's own connection, and
\* fails with ErrClientNotInit when the wrapper never established one.
C18_LocalClientOrNotInit ==
    \A t \in Threads :
        (pc[t] = "idle" /\ ret[t].op = "GetClient" /\ ret[t].id = NoId)
        => /\ ret[t].err = Nil => ret[t].val = LocalConn(ret[t].c)
           /\ ~wrap[ret[t].c].Established => ret[t].err = "ErrClientNotInit"

\* The key a creation call's entry belongs under: the id given to New when
\* it is not empty, else the id of the definition.
KeyOf(r) ==
    IF r.op = "New" /\ r.id = NoId THEN DecodeRuleNode(r.dsl).def.id ELSE r.id

\* C19: the entry a creation call returns is stored under the id given to
\* New when that is not empty, and under its definition's own id for New
\* with an empty id and for NewFromDef; its Definition carries that id and
\* Get with that key returns it.
C19_KeyDerivation ==
    \A t \in Threads :
        Created(t)
        => /\ ret[t].val # NoCtx
           /\ Lookup(ret[t].type, KeyOf(ret[t])) = ret[t].val
           /\ ctx[ret[t].val].def.id = KeyOf(ret[t])

C19_Witness ==
    \E t \in Threads, h \in InstIds :
        /\ Created(t)
        /\ ret[t].op = "New"
        /\ ret[t].id = <<"b">>
        /\ ret[t].dsl.ok /\ ret[t].dsl.id = <<"a">>
        /\ ctx[ret[t].val].def.id = <<"b">>
        /\ h # ret[t].val
        /\ Lookup(ret[t].type, <<"a">>) = h
        /\ ctx[h].def.id = <<"a">>

\* C20: after a ReloadSelf that succeeded, the node context carries the type
\* and the id of the new definition and its live Instance is of the new
\* type, and reads of the context leave it so.
C20_ReloadReflected ==
    /\ [](\A t \in Threads :
            (pc[t] = "idle" /\ ret[t].op = "ReloadSelf" /\ ret[t].err = Nil)
            => LET h == ret[t].val
                   d == DecodeRuleNode(ret[t].dsl).def
               IN /\ ctx[h].def.type = d.type
                  /\ ctx[h].def.id = d.id
                  /\ inst[ctx[h].node].type = d.type
                  /\ inst[ctx[h].node].state = "live")
    /\ [][\A t \in Threads :
            (loc[t].op = "GetNetResource" \/ loc'[t].op = "GetNetResource"
               \/ (ret'[t] # ret[t] /\ ret'[t].op = "GetNetResource"))
            => UNCHANGED <<pool, nodes>>]_vars

C20_Witness ==
    \E t \in Threads :
        /\ pc[t] = "idle" /\ ret[t].op = "ReloadSelf" /\ ret[t].err = Nil
        /\ Lookup("mqttClient", <<"b">>) = ret[t].val
        /\ ctx[ret[t].val].def.id = <<"a">>
        /\ ctx[ret[t].val].def.type = "jsFilter"
        /\ inst[ret[t].val].type = "mqttClient"
        /\ inst[ret[t].val].state = "destroyed"

\* C21: initializing a node context for a definition whose type is not
\* registered fails with ComponentNotFound, and one whose component's own
\* initialization fails returns that error; in both cases the caller gets
\* no node context and none is created or pooled.
InitFails(t) ==
    /\ pc[t] \in {"NewFromDef_Load", "NewFromDef_Init"}
    /\ ~KeyHit(t)
    /\ \/ loc[t].def.type \notin NodeTypes
       \/ loc[t].def.server = "bad"

C21_InitFailureNoContext ==
    [][\A t \in Threads :
         /\ InitFails(t)
            => /\ pc'[t] \in {"idle", "NewFromDef_Init"}
               /\ ctx' = ctx
               /\ UNCHANGED pool
         /\ (InitFails(t) /\ pc'[t] = "idle")
            => /\ ret'[t].val = NoCtx
               /\ ret'[t].err = IF loc[t].def.type \notin NodeTypes
                                THEN "ComponentNotFound"
                                ELSE "ComponentInitError"
         /\ pc'[t] = "NewFromDef_Init" => loc'[t].def.type \in NodeTypes]_vars

C21_Witness ==
    \E t \in Threads :
        /\ pc[t] = "idle"
        /\ ret[t].op = "New"
        /\ ret[t].err = "ComponentNotFound"
        /\ ret[t].val = NoCtx
        /\ \E i \in InstIds : inst[i].state = "failed"
        /\ \A h \in InstIds : ctx[h] = NoCtxRec

\* C22: variable resolution leaves a placeholder verbatim, without error,
\* when its scope is absent or does not hold its name, replaces a
\* placeholder whose name its scope holds by the scope's current value, and
\* copies every value that is not a string; resolving the same raw input
\* again after the name was set gives the substituted value.
ScopeOf(scope, chainCtx) ==
    IF scope = "global" THEN Properties
    ELSE IF chainCtx.nil THEN EmptyScope
    ELSE IF scope = "vars" THEN chainCtx.vars
    ELSE chainCtx.decryptSecrets

Expected(seg, chainCtx) ==
    IF seg.kind = "var" /\ ScopeOf(seg.scope, chainCtx)[seg.name] # Unset
    THEN Lit(ScopeOf(seg.scope, chainCtx)[seg.name])
    ELSE seg

C22_VariableResolution ==
    [][resolved' # resolved =>
         LET r == resolved'
         IN /\ r.err = Nil
            /\ DOMAIN r.result = DOMAIN r.raw
            /\ \A key \in DOMAIN r.raw :
                  IF r.raw[key].str
                  THEN /\ r.result[key].str
                       /\ Len(r.result[key].segs) = Len(r.raw[key].segs)
                       /\ \A i \in 1..Len(r.raw[key].segs) :
                             r.result[key].segs[i] =
                                Expected(r.raw[key].segs[i], r.chainCtx)
                  ELSE r.result[key] = r.raw[key]]_vars

C22_Witness ==
    /\ resolved.raw = resolved.prevRaw
    /\ "age" \in DOMAIN resolved.raw
    /\ resolved.result["age"] = Num(18)
    /\ resolved.raw["name"] = Str(<<Var("global", "name")>>)
    /\ resolved.prevResult["name"] = resolved.raw["name"]
    /\ resolved.result["name"] = Str(<<Lit("lala")>>)
    /\ resolved.chainCtx = NilChainCtx

\* C23: while Del and Stop interleave with Get, GetNetResource and GetAll,
\* no lookup returns an entry on which the pool has already called Destroy.
Destroyed(h) == h # NoCtx /\ inst[ctx[h].node].state = "destroyed"

C23_NoDestroyedLookup ==
    [][\A t \in Threads :
         /\ (pc[t] = "Get_Load" /\ pc'[t] = "idle")
            => ~Destroyed(ret'[t].val)
         /\ (pc[t] = "GetNetResource_Load" /\ pc'[t] = "GetNetResource_Call")
            => ~Destroyed(loc'[t].h)
         /\ (pc[t] = "GetAll_Inner" /\ pc'[t] = "GetAll_Inner")
            => \A item \in loc'[t].items \ loc[t].items :
                  ~Destroyed(item[2])]_vars

\* C24: while New and NewFromDef interleave with Stop, no live entry is
\* orphaned: every entry a creation call has stored and that is not
\* destroyed is what Get finds under its (type, id), so that a further Stop
\* reaches every instance still alive.
C24_NoOrphan ==
    \A h \in InstIds :
        (ctx[h].stored /\ inst[ctx[h].node].state = "live")
        => Lookup(ctx[h].def.type, ctx[h].def.id) = h

\* C25: a wrapper's mode is that of its last Init: when the last Init got
\* a value without the pool prefix, the next GetClient uses the local dial
\* function and does not consult the pool, whatever earlier Inits did.
GetClientOf(t, c) ==
    \/ pc'[t] = "idle" /\ ret'[t].op = "GetClient" /\ ret'[t].c = c
    \/ /\ pc'[t] = "GetNetResource_Load"
       /\ loc'[t].op = "GetClient"
       /\ loc'[t].c = c

C25_LastInitDecides ==
    [][\A t \in Threads, c \in Consumers :
         (/\ pc[t] = "idle"
          /\ ret[t].op = "Init"
          /\ ret[t].c = c
          /\ ~IsNetPool(ret[t].id)
          /\ GetClientOf(t, c))
         => /\ pc'[t] = "idle"
            /\ ret'[t].dial \in {"ok", "failed"}
            /\ ret'[t].err \notin {"NotFound", "ErrNetPoolNil"}]_vars

\* C26: the connect guard never gets stuck: when every caller that wins
\* Connect eventually calls Connected, the flag is idle again infinitely
\* often, and a caller that keeps retrying Connect eventually wins.
FlagIdleAgain == \A c \in Consumers : []<>(wrap[c].Connecting = 0)

C26_RetryEventuallyWins ==
    /\ FlagIdleAgain
    /\ \A t \in Threads, c \in Consumers :
          []<><<NetResourceNode_Connect(t, c)>>_vars
          => []<>(pc[t] = "Dialing" /\ loc[t].c = c)

\* C26, amended: the flag is idle again infinitely often, and while callers
\* keep retrying Connect on a resource some caller holds the guard of that
\* resource infinitely often; one caller may lose every time.
C26_GuardNeverStuck ==
    /\ FlagIdleAgain
    /\ \A c \in Consumers :
          []<><<\E t \in Threads : NetResourceNode_Connect(t, c)>>_vars
          => []<>(Dialers(c) # {})

C26_Witness ==
    \E c \in Consumers, t1, t2 \in Threads :
        /\ t1 # t2
        /\ pc[t1] = "idle" /\ ret[t1].op = "Connect" /\ ret[t1].c = c
        /\ ret[t1].val = 0
        /\ pc[t2] = "idle" /\ ret[t2].op = "Connected" /\ ret[t2].c = c
        /\ wrap[c].Connecting = 0

====
